---- MODULE Spec2Model ----
(***************************************************************************)
(* AdjustPrices: locate amounts in a DOM subtree, adjust them and splice   *)
(* the reformatted digits back into the markup.                            *)
(*                                                                         *)
(* Strings are sequences of one-character strings.  Offsets into strings   *)
(* are the 0-based offsets of the JavaScript source.  The document under   *)
(* the root is its serialised markup; an element is named by its 1-based   *)
(* position in getElementsByTagName("*") (document order), 0 is the root.  *)
(* Elements are written <b> ... </b>: tags carry no attributes, so no       *)
(* marker occurs inside a tag, and text holds no '<', '>' or '&'.          *)
(* Numbers are IEEE 754 doubles, computed bit for bit: parseFloat, +, *, /  *)
(* and toFixed round as the double arithmetic of the source rounds.        *)
(***************************************************************************)
EXTENDS Integers, Sequences, FiniteSets, TLC

Digits == {"0", "1", "2", "3", "4", "5", "6", "7", "8", "9"}

DigitChars == <<"0", "1", "2", "3", "4", "5", "6", "7", "8", "9">>

DigitVal(c) == (CHOOSE d \in 1..10 : DigitChars[d] = c) - 1

Min(a, b) == IF a < b THEN a ELSE b

Max(a, b) == IF a > b THEN a ELSE b

Abs(a) == IF a < 0 THEN -a ELSE a

RECURSIVE Pow10(_)
Pow10(n) == IF n <= 0 THEN 1 ELSE 10 * Pow10(n - 1)

\* str[i] of the source (0-based); "" stands for undefined
charAt(str, i) == IF i >= 0 /\ i < Len(str) THEN str[i + 1] ELSE ""

\* String.prototype.substring(a, b)
substring(str, a, b) ==
    LET ca == Max(0, Min(a, Len(str)))
        cb == Max(0, Min(b, Len(str)))
    IN  SubSeq(str, Min(ca, cb) + 1, Max(ca, cb))

\* String.prototype.indexOf(c, from) for a single character, -1 when absent
RECURSIVE indexOf(_, _, _)
indexOf(str, c, from) ==
    IF from >= Len(str) THEN -1
    ELSE IF str[from + 1] = c THEN from
    ELSE indexOf(str, c, from + 1)

\* replace_text that forgets to drop the replaced characters
replace_text_keeps(str, start, limit, new_str) ==
    substring(str, 0, start) \o new_str \o substring(str, start, Len(str))

replace_text(str, start, limit, new_str) ==
    substring(str, 0, start) \o new_str \o substring(str, start + limit, Len(str))

(***************************************************************************)
(* Numbers                                                                 *)
(***************************************************************************)
NaN == [nan |-> TRUE, num |-> 0, scale |-> 0]

RECURSIVE Norm(_, _)
Norm(n, s) ==
    IF s > 0 /\ n % 10 = 0 THEN Norm(n \div 10, s - 1)
    ELSE [nan |-> FALSE, num |-> n, scale |-> s]

RECURSIVE ToInt(_)
ToInt(ds) ==
    IF ds = <<>> THEN 0
    ELSE 10 * ToInt(SubSeq(ds, 1, Len(ds) - 1)) + DigitVal(ds[Len(ds)])

\* end (exclusive) of the run of decimal digits that starts at offset i
RECURSIVE DigitsEnd(_, _)
DigitsEnd(s, i) ==
    IF i < Len(s) /\ s[i + 1] \in Digits THEN DigitsEnd(s, i + 1) ELSE i

\* parseFloat on a string of digits, '.' and ',': the longest prefix that is
\* a decimal literal, NaN when there is none
parseFloat(s) ==
    LET ie == DigitsEnd(s, 0)
        fe == IF charAt(s, ie) = "." THEN DigitsEnd(s, ie + 1) ELSE ie
        int == substring(s, 0, ie)
        frac == IF fe > ie THEN substring(s, ie + 1, fe) ELSE <<>>
    IN  IF ie = 0 /\ fe <= ie + 1 THEN NaN
        ELSE Norm(ToInt(int \o frac), Len(frac))

RECURSIVE IntStr(_)
IntStr(n) ==
    IF n < 10 THEN <<DigitChars[n + 1]>>
    ELSE IntStr(n \div 10) \o <<DigitChars[(n % 10) + 1]>>

(***************************************************************************)
(* Numbers: IEEE 754 doubles                                               *)
(*                                                                         *)
(* A natural number of any size is the sequence of its base-2^15 limbs,    *)
(* least significant first, without leading zero limbs.  A double is       *)
(* [nan, neg, m, e], the number (-1)^neg * m * 2^e with m below 2^53 (or   *)
(* 2^53 itself); every operation rounds its exact result to nearest, ties  *)
(* to even.  Magnitudes stay far from the subnormal and overflow ranges.   *)
(* A double that was read from a decimal literal is named by the literal:  *)
(* [nan, num, scale] stands for the double nearest to num / 10^scale.      *)
(***************************************************************************)
Limb == 32768

LimbBits == 15

Mantissa == 53

RECURSIVE Pow2(_)
Pow2(n) == IF n <= 0 THEN 1 ELSE 2 * Pow2(n - 1)

\* n copies of c
RECURSIVE Repeat(_, _)
Repeat(c, n) == IF n <= 0 THEN <<>> ELSE <<c>> \o Repeat(c, n - 1)

RECURSIVE BigNorm(_)
BigNorm(a) ==
    IF a # <<>> /\ a[Len(a)] = 0 THEN BigNorm(SubSeq(a, 1, Len(a) - 1)) ELSE a

RECURSIVE BigFromInt(_)
BigFromInt(n) == IF n = 0 THEN <<>> ELSE <<n % Limb>> \o BigFromInt(n \div Limb)

\* a * c + carry for a small c
RECURSIVE BigMulSmall(_, _, _)
BigMulSmall(a, c, carry) ==
    IF a = <<>> THEN BigFromInt(carry)
    ELSE LET p == a[1] * c + carry
         IN  <<p % Limb>> \o BigMulSmall(Tail(a), c, p \div Limb)

\* a divided by a small d, from the top limb down: [q, r]
RECURSIVE BigDivSmallFrom(_, _, _, _)
BigDivSmallFrom(a, d, p, r) ==
    IF p = 0 THEN [q |-> <<>>, r |-> r]
    ELSE LET cur == r * Limb + a[p]
             rest == BigDivSmallFrom(a, d, p - 1, cur % d)
         IN  [q |-> Append(rest.q, cur \div d), r |-> rest.r]

BigDivSmall(a, d) ==
    LET res == BigDivSmallFrom(a, d, Len(a), 0)
    IN  [q |-> BigNorm(res.q), r |-> res.r]

RECURSIVE BigAddFrom(_, _, _, _)
BigAddFrom(a, b, p, carry) ==
    IF p > Len(a) /\ p > Len(b) THEN (IF carry = 0 THEN <<>> ELSE <<carry>>)
    ELSE LET s == (IF p <= Len(a) THEN a[p] ELSE 0)
                    + (IF p <= Len(b) THEN b[p] ELSE 0) + carry
         IN  <<s % Limb>> \o BigAddFrom(a, b, p + 1, s \div Limb)

BigAdd(a, b) == BigAddFrom(a, b, 1, 0)

\* a - b for a >= b
RECURSIVE BigSubFrom(_, _, _, _)
BigSubFrom(a, b, p, borrow) ==
    IF p > Len(a) THEN <<>>
    ELSE LET s == a[p] - (IF p <= Len(b) THEN b[p] ELSE 0) - borrow
         IN  <<s % Limb>> \o BigSubFrom(a, b, p + 1, IF s < 0 THEN 1 ELSE 0)

BigSub(a, b) == BigNorm(BigSubFrom(a, b, 1, 0))

RECURSIVE BigLessFrom(_, _, _)
BigLessFrom(a, b, p) ==
    IF p = 0 THEN FALSE
    ELSE IF a[p] # b[p] THEN a[p] < b[p]
    ELSE BigLessFrom(a, b, p - 1)

BigLess(a, b) ==
    IF Len(a) # Len(b) THEN Len(a) < Len(b) ELSE BigLessFrom(a, b, Len(a))

RECURSIVE BigMulFrom(_, _, _)
BigMulFrom(a, b, p) ==
    IF p > Len(b) THEN <<>>
    ELSE BigAdd(BigMulSmall(a, b[p], 0), <<0>> \o BigMulFrom(a, b, p + 1))

BigMul(a, b) == BigNorm(BigMulFrom(a, b, 1))

\* a * 2^k
BigShl(a, k) ==
    IF a = <<>> THEN <<>>
    ELSE Repeat(0, k \div LimbBits) \o BigMulSmall(a, Pow2(k % LimbBits), 0)

RECURSIVE BitLen(_)
BitLen(n) == IF n = 0 THEN 0 ELSE 1 + BitLen(n \div 2)

BigBitLen(a) == IF a = <<>> THEN 0 ELSE (Len(a) - 1) * LimbBits + BitLen(a[Len(a)])

IsZeroLimbs(a) == \A p \in 1..Len(a) : a[p] = 0

\* a / 2^t for t >= 1: the quotient, the first dropped bit, and whether any
\* lower dropped bit is set
BigShr(a, t) ==
    LET whole == Min(t \div LimbBits, Len(a))
        bits == t % LimbBits
        low == SubSeq(a, 1, whole)
        high == BigDivSmall(SubSeq(a, whole + 1, Len(a)), Pow2(bits))
    IN  IF bits > 0
        THEN [q |-> high.q,
              half |-> high.r >= Pow2(bits - 1),
              sticky |-> (high.r % Pow2(bits - 1)) # 0 \/ ~IsZeroLimbs(low)]
        ELSE [q |-> high.q,
              half |-> whole > 0 /\ low[whole] >= Pow2(LimbBits - 1)
                         /\ whole = t \div LimbBits,
              sticky |-> whole > 0
                         /\ ((low[whole] % Pow2(LimbBits - 1)) # 0
                                \/ whole < t \div LimbBits
                                \/ ~IsZeroLimbs(SubSeq(low, 1, whole - 1)))]

RECURSIVE BigDigits(_)
BigDigits(a) ==
    IF a = <<>> THEN <<>>
    ELSE LET d == BigDivSmall(a, 10) IN Append(BigDigits(d.q), DigitChars[d.r + 1])

NaNDouble == [nan |-> TRUE, neg |-> FALSE, m |-> <<>>, e |-> 0]

\* (-1)^neg * (m + a fraction in (0,1) if sticky) * 2^e rounded to a double
RoundToDouble(neg, m, e, sticky) ==
    LET t == BigBitLen(m) - Mantissa
    IN  IF m = <<>> THEN [nan |-> FALSE, neg |-> FALSE, m |-> <<>>, e |-> 0]
        ELSE IF t <= 0 THEN [nan |-> FALSE, neg |-> neg, m |-> m, e |-> e]
        ELSE LET s == BigShr(m, t)
                 up == s.half /\ (s.sticky \/ sticky \/ (s.q[1] % 2) = 1)
             IN  [nan |-> FALSE, neg |-> neg,
                  m |-> IF up THEN BigAdd(s.q, <<1>>) ELSE s.q, e |-> e + t]

\* floor(a / 10^s) and whether anything was cut off
RECURSIVE BigDivPow10(_, _, _)
BigDivPow10(a, s, sticky) ==
    IF s = 0 THEN [q |-> a, sticky |-> sticky]
    ELSE LET d == BigDivSmall(a, 10)
         IN  BigDivPow10(d.q, s - 1, sticky \/ d.r # 0)

\* the double that the decimal literal x names
ToDouble(x) ==
    IF x.nan THEN NaNDouble
    ELSE LET k == 64 + 4 * x.scale
             d == BigDivPow10(BigShl(BigFromInt(Abs(x.num)), k), x.scale, FALSE)
         IN  RoundToDouble(x.num < 0, d.q, -k, d.sticky)

\* a + b
AddD(a, b) ==
    IF a.nan \/ b.nan THEN NaNDouble
    ELSE IF a.m = <<>> THEN b
    ELSE IF b.m = <<>> THEN a
    ELSE LET e == Min(a.e, b.e)
             ma == BigShl(a.m, a.e - e)
             mb == BigShl(b.m, b.e - e)
         IN  IF a.neg = b.neg THEN RoundToDouble(a.neg, BigAdd(ma, mb), e, FALSE)
             ELSE IF BigLess(ma, mb) THEN RoundToDouble(b.neg, BigSub(mb, ma), e, FALSE)
             ELSE RoundToDouble(a.neg, BigSub(ma, mb), e, FALSE)

\* a * b
MulD(a, b) ==
    IF a.nan \/ b.nan THEN NaNDouble
    ELSE RoundToDouble(a.neg # b.neg, BigMul(a.m, b.m), a.e + b.e, FALSE)

\* a / 100
Div100D(a) ==
    IF a.nan THEN NaNDouble
    ELSE LET d == BigDivSmall(BigShl(a.m, 64), 100)
         IN  RoundToDouble(a.neg, d.q, a.e - 64, d.r # 0)

\* Number.prototype.toFixed(2) of a double: the integer n with n / 100 nearest
\* to x, the larger n when two are as near
toFixedDouble(x) ==
    IF x.nan THEN <<"N", "a", "N">>
    ELSE LET p == BigMulSmall(x.m, 100, 0)
             s == IF x.e < 0 THEN BigShr(p, -x.e)
                  ELSE [q |-> BigShl(p, x.e), half |-> FALSE, sticky |-> FALSE]
             n == IF s.half THEN BigAdd(s.q, <<1>>) ELSE s.q
             ds == BigDigits(n)
             pad == Repeat("0", 3 - Len(ds)) \o ds
         IN  (IF x.neg THEN <<"-">> ELSE <<>>) \o SubSeq(pad, 1, Len(pad) - 2)
                 \o <<".">> \o SubSeq(pad, Len(pad) - 1, Len(pad))

\* Number.prototype.toFixed(2) of the double that the decimal literal x names
toFixed(x) == toFixedDouble(ToDouble(x))

replace_first_separator(chars) ==
    LET isSep(c) == c \notin Digits /\ c # "."
        hit == CHOOSE i \in 1..(Len(chars) + 1) :
                   /\ i = Len(chars) + 1 \/ isSep(chars[i])
                   /\ \A h \in 1..(i - 1) : ~isSep(chars[h])
    IN  IF hit > Len(chars) THEN chars
        ELSE SubSeq(chars, 1, hit - 1) \o SubSeq(chars, hit + 1, Len(chars))

arr_to_float(chars) == parseFloat(replace_first_separator(chars))

Undefined == <<"u", "n", "d", "e", "f", "i", "n", "e", "d">>

RECURSIVE number_format_loop(_, _, _, _)
number_format_loop(p0, i, j, buffer) ==
    IF i > -1
    THEN LET j1 == j + 1
             b1 == <<charAt(p0, i)>> \o buffer
             b2 == IF j1 % 3 = 0 /\ i # 0 THEN <<",">> \o b1 ELSE b1
         IN  number_format_loop(p0, i - 1, j1, b2)
    ELSE buffer

number_format(float) ==
    LET d1 == indexOf(float, ".", 0)
        p0 == IF d1 < 0 THEN float ELSE substring(float, 0, d1)
        d2 == IF d1 < 0 THEN -1 ELSE indexOf(float, ".", d1 + 1)
        p1 == IF d1 < 0 THEN Undefined
              ELSE IF d2 < 0 THEN substring(float, d1 + 1, Len(float))
              ELSE substring(float, d1 + 1, d2)
    IN  number_format_loop(p0, Len(p0) - 1, 0, <<>>) \o <<".">> \o p1

(***************************************************************************)
(* The document: markup of the root, elements are its <b> ... </b> pairs   *)
(***************************************************************************)
NULL == -1

Root == 0

IsOpenAt(doc, i) == charAt(doc, i) = "<" /\ charAt(doc, i + 1) # "/"

IsCloseAt(doc, i) == charAt(doc, i) = "<" /\ charAt(doc, i + 1) = "/"

\* offsets of the open tags from offset i on, in document order
RECURSIVE OpenTags(_, _)
OpenTags(doc, i) ==
    IF i >= Len(doc) THEN <<>>
    ELSE IF IsOpenAt(doc, i) THEN <<i>> \o OpenTags(doc, i + 1)
    ELSE OpenTags(doc, i + 1)

\* root.getElementsByTagName("*"): the elements 1..n, in document order
getElementsByTagName(doc) == [e \in 1..Len(OpenTags(doc, 0)) |-> e]

OpenPos(doc, e) == OpenTags(doc, 0)[e]

\* offset of the close tag that matches the element whose content starts at i
RECURSIVE ClosePos(_, _, _)
ClosePos(doc, i, depth) ==
    IF i >= Len(doc) THEN Len(doc)
    ELSE IF IsCloseAt(doc, i)
         THEN IF depth = 0 THEN i ELSE ClosePos(doc, i + 1, depth - 1)
    ELSE IF IsOpenAt(doc, i) THEN ClosePos(doc, i + 1, depth + 1)
    ELSE ClosePos(doc, i + 1, depth)

ContentStart(doc, e) == IF e = Root THEN 0 ELSE indexOf(doc, ">", OpenPos(doc, e)) + 1

ContentEnd(doc, e) == IF e = Root THEN Len(doc) ELSE ClosePos(doc, ContentStart(doc, e), 0)

innerHTML(doc, e) == substring(doc, ContentStart(doc, e), ContentEnd(doc, e))

\* el.innerHTML = html
setInnerHTML(doc, e, html) ==
    substring(doc, 0, ContentStart(doc, e)) \o html
        \o substring(doc, ContentEnd(doc, e), Len(doc))

\* the characters of a markup string that lie outside its tags
RECURSIVE StripTags(_, _, _)
StripTags(html, i, inTag) ==
    IF i >= Len(html) THEN <<>>
    ELSE IF inTag THEN StripTags(html, i + 1, html[i + 1] # ">")
    ELSE IF html[i + 1] = "<" THEN StripTags(html, i + 1, TRUE)
    ELSE <<html[i + 1]>> \o StripTags(html, i + 1, FALSE)

textContent(doc, e) == StripTags(innerHTML(doc, e), 0, FALSE)

\* walk the markup from offset p keeping the stack of open elements (innermost
\* first); n elements have been opened so far; stop at the start tag of e
RECURSIVE ParentScan(_, _, _, _, _)
ParentScan(doc, e, p, n, stack) ==
    IF p >= Len(doc) THEN NULL
    ELSE IF IsOpenAt(doc, p)
         THEN IF n + 1 = e THEN (IF stack = <<>> THEN Root ELSE stack[1])
              ELSE ParentScan(doc, e, p + 1, n + 1, <<n + 1>> \o stack)
    ELSE IF IsCloseAt(doc, p) THEN ParentScan(doc, e, p + 1, n, Tail(stack))
    ELSE ParentScan(doc, e, p + 1, n, stack)

\* node.parentNode: the innermost enclosing element, the root for a top-level
\* element, null above the root
parentNode(doc, e) ==
    IF e = NULL \/ e = Root THEN NULL ELSE ParentScan(doc, e, 0, 0, <<>>)

RECURSIVE is_decendant(_, _, _)
is_decendant(doc, child, parent) ==
    LET up == parentNode(doc, child)
    IN  IF up = NULL THEN FALSE
        ELSE IF up = parent THEN TRUE
        ELSE is_decendant(doc, up, parent)

(***************************************************************************)
(* Locator                                                                 *)
(***************************************************************************)
allowed == Digits \cup {".", ","}

\* greedy [\d.,]* from offset i: the offset after the run
RECURSIVE RunEnd(_, _)
RunEnd(text, i) ==
    IF i < Len(text) /\ text[i + 1] \in allowed THEN RunEnd(text, i + 1) ELSE i

\* /\$(\d[\d.,]*|\$\.\d{2})/ anchored at offset i: the offset after the
\* match, -1 when it does not match there
PriceMatchAt(text, i) ==
    IF charAt(text, i) # "$" THEN -1
    ELSE IF charAt(text, i + 1) \in Digits THEN RunEnd(text, i + 2)
    ELSE IF /\ charAt(text, i + 1) = "$"
            /\ charAt(text, i + 2) = "."
            /\ charAt(text, i + 3) \in Digits
            /\ charAt(text, i + 4) \in Digits
         THEN i + 5
    ELSE -1

\* text.match(/\$(\d[\d.,]*|\$\.\d{2})/g): the matched substrings, left to
\* right; the empty sequence stands for null
RECURSIVE match_price(_, _)
match_price(text, i) ==
    IF i >= Len(text) THEN <<>>
    ELSE LET e == PriceMatchAt(text, i)
         IN  IF e < 0 THEN match_price(text, i + 1)
             ELSE <<substring(text, i, e)>> \o match_price(text, e)

\* text.match(/\$/g): the empty sequence stands for null
match_marker(text) == SelectSeq(text, LAMBDA c : c = "$")

\* an iteration that accepts a child of the last accepted element whatever
\* the counts, never skipping a subtree
get_price_elements_step_no_skip(doc, node, st) ==
    LET match == match_price(textContent(doc, node), 0)
    IN  IF match = <<>> THEN st
        ELSE [results |-> (IF st.last_node = parentNode(doc, node)
                                  /\ Len(st.last_match) = Len(match)
                           THEN SubSeq(st.results, 1, Len(st.results) - 1)
                           ELSE st.results) \o <<node>>,
              last_node |-> node,
              last_match |-> match,
              skip_children |-> FALSE]

\* one iteration of the for loop of get_price_elements, on nodes[i]
get_price_elements_step(doc, node, st) ==
    LET match == match_price(textContent(doc, node), 0)
    IN  IF match = <<>> THEN st
        ELSE IF st.skip_children /\ is_decendant(doc, node, st.last_node) THEN st
        ELSE IF st.last_node = parentNode(doc, node)
                    /\ Len(st.last_match) > Len(match)
             THEN [st EXCEPT !.skip_children = TRUE]
        ELSE [results |-> (IF st.last_node = parentNode(doc, node)
                                  /\ Len(st.last_match) = Len(match)
                           THEN SubSeq(st.results, 1, Len(st.results) - 1)
                           ELSE st.results) \o <<node>>,
              last_node |-> node,
              last_match |-> match,
              skip_children |-> FALSE]

RECURSIVE get_price_elements_loop(_, _, _, _)
get_price_elements_loop(doc, nodes, i, st) ==
    IF i > Len(nodes) THEN st
    ELSE get_price_elements_loop(doc, nodes, i + 1,
                                 get_price_elements_step(doc, nodes[i], st))

get_price_elements(doc) ==
    get_price_elements_loop(doc, getElementsByTagName(doc), 1,
        [results |-> <<>>, last_node |-> NULL, last_match |-> <<>>,
         skip_children |-> FALSE]).results

(***************************************************************************)
(* Extractor                                                               *)
(***************************************************************************)
\* the scanning for loop of capture_amount, from offset i
RECURSIVE capture_scan(_, _, _, _, _)
capture_scan(text, i, on_tag, buffer, index_map) ==
    IF i > Len(text) - 1 THEN [text |-> buffer, map |-> index_map]
    ELSE LET char == charAt(text, i)
         IN  IF char = "<" THEN capture_scan(text, i + 1, TRUE, buffer, index_map)
             ELSE IF on_tag
                  THEN capture_scan(text, i + 1, char # ">", buffer, index_map)
             ELSE IF char \notin allowed THEN [text |-> buffer, map |-> index_map]
             ELSE capture_scan(text, i + 1, FALSE, Append(buffer, char),
                               Append(index_map, i))

\* the while loop of capture_amount: drop trailing '.' and ','
RECURSIVE capture_trim(_)
capture_trim(a) ==
    IF a.text # <<>> /\ a.text[Len(a.text)] \in {".", ","}
    THEN capture_trim([text |-> SubSeq(a.text, 1, Len(a.text) - 1),
                       map |-> SubSeq(a.map, 1, Len(a.map) - 1)])
    ELSE a

capture_amount(text, index) ==
    LET a == capture_trim(capture_scan(text, index + 1, FALSE, <<>>, <<>>))
    IN  [text |-> a.text, map |-> a.map, float |-> arr_to_float(a.text)]

(***************************************************************************)
(* Adjuster                                                                *)
(***************************************************************************)
\* lines 180-185 of adjust_el: the formatted adjusted amount
adjusted_string(adj, aValue) ==
    number_format(
        IF adj.isPercentAdjustment
        THEN toFixedDouble(AddD(MulD(Div100D(ToDouble(aValue)), ToDouble(adj.value)),
                                ToDouble(aValue)))
        ELSE toFixedDouble(AddD(ToDouble(aValue), ToDouble(adj.value))))

\* a slice that takes one element too many
slice0_one_more(arr, max) ==
    IF ~max.given THEN arr ELSE SubSeq(arr, 1, Min(max.n + 1, Len(arr)))

\* Array.prototype.slice(0, max); max is [given |-> FALSE] when omitted
slice0(arr, max) ==
    IF ~max.given THEN arr
    ELSE IF max.n >= 0 THEN SubSeq(arr, 1, Min(max.n, Len(arr)))
    ELSE SubSeq(arr, 1, Max(0, Len(arr) + max.n))

(***************************************************************************)
(* State of one call adjust(adjustment, parent, max)                       *)
(***************************************************************************)
VARIABLES
    doc,         \* markup under the root (the live DOM)
    doc0,        \* the markup adjust was called on
    adjustment,  \* [isPercentAdjustment, value]
    max,         \* the limit, [given |-> FALSE] when omitted
    pc,          \* position in adjust / adjust_el
    nodes,       \* adjust: the sliced candidate list
    adjust_i,    \* adjust: loop index i (0-based)
    el,          \* adjust_el: the element
    html,        \* adjust_el: working copy of el.innerHTML
    max_total,   \* adjust_el: number of markers in el.textContent
    i,           \* adjust_el: marker loop index
    lastIndex,   \* adjust_el: regex.lastIndex of /\$/g
    amount,      \* adjust_el: result of capture_amount
    adjStr,      \* adjust_el: formatted adjusted amount
    j,           \* adjust_el: splice loop index into aMap
    k,           \* adjust_el: splice loop index into adjStr
    mutated,     \* history: elements whose innerHTML was assigned, in order
    order,       \* history: per adjust_el call, ordinals of the markers processed
    html_before, \* history: html when the current splice loop started
    written      \* history: per character of html, was it written by the current splice loop

vars == <<doc, doc0, adjustment, max, pc, nodes, adjust_i, el, html, max_total, i,
          lastIndex, amount, adjStr, j, k, mutated, order, html_before, written>>

NoAmount == [text |-> <<>>, map |-> <<>>, float |-> NaN]

Wrap(s) == <<"<", "b", ">">> \o s \o <<"<", "/", "b", ">">>

Num(n, s) == Norm(n, s)

Omitted == [given |-> FALSE, n |-> 0]

MaxLimit == 2

Limits == {Omitted} \cup {[given |-> TRUE, n |-> n] : n \in 0..MaxLimit}

Texts ==
    { <<>>, <<" ">>, <<"$">>, <<"0">>, <<"$", "1">>, <<".", "0", "0">>,
      <<"$", "9", ".", "9", "9">> }

Docs ==
    {Wrap(t) : t \in Texts}
        \cup {Wrap(t[1] \o Wrap(t[2]) \o t[3]) : t \in Texts \X Texts \X Texts}
        \cup {Wrap(t[1]) \o Wrap(t[2]) \o Wrap(t[3]) : t \in Texts \X Texts \X Texts}

Adjustments ==
    {[isPercentAdjustment |-> FALSE, value |-> Num(c, 2)] : c \in {-50, 2, 100}}
        \cup {[isPercentAdjustment |-> TRUE, value |-> Num(50, 0)]}

InitWith(D, A, L) ==
    /\ doc \in D
    /\ doc0 = doc
    /\ adjustment \in A
    /\ max \in L
    /\ pc = "adjust"
    /\ nodes = <<>>
    /\ adjust_i = 0
    /\ el = NULL
    /\ html = <<>>
    /\ max_total = 0
    /\ i = 0
    /\ lastIndex = 0
    /\ amount = NoAmount
    /\ adjStr = <<>>
    /\ j = 0
    /\ k = 0
    /\ mutated = <<>>
    /\ order = <<>>
    /\ html_before = <<>>
    /\ written = <<>>

Init == InitWith(Docs, Adjustments, Limits)

\* adjust whose loop starts at the first candidate
Locate_forward ==
    /\ pc = "adjust"
    /\ nodes' = slice0(get_price_elements(doc), max)
    /\ adjust_i' = Min(0, Len(nodes') - 1)
    /\ pc' = "loop"
    /\ UNCHANGED <<doc, doc0, adjustment, max, el, html, max_total, i, lastIndex,
                   amount, adjStr, j, k, mutated, order, html_before, written>>

\* adjust, line 209: the Locator scan and the slice
Locate ==
    /\ pc = "adjust"
    /\ nodes' = slice0(get_price_elements(doc), max)
    /\ adjust_i' = Len(nodes') - 1
    /\ pc' = "loop"
    /\ UNCHANGED <<doc, doc0, adjustment, max, el, html, max_total, i, lastIndex,
                   amount, adjStr, j, k, mutated, order, html_before, written>>

\* adjust, lines 210-211, and adjust_el, lines 162-168: enter adjust_el on nodes[i]
AdjustEl ==
    /\ pc = "loop"
    /\ adjust_i >= 0
    /\ LET node == nodes[adjust_i + 1]
           match == match_marker(textContent(doc, node))
       IN  /\ el' = node
           /\ order' = <<>>
           /\ IF match = <<>>
              THEN /\ adjust_i' = adjust_i - 1
                   /\ pc' = "loop"
                   /\ UNCHANGED <<html, max_total, i, lastIndex>>
              ELSE /\ max_total' = Len(match)
                   /\ html' = innerHTML(doc, node)
                   /\ i' = 0
                   /\ lastIndex' = 0
                   /\ pc' = "markers"
                   /\ UNCHANGED adjust_i
    /\ UNCHANGED <<doc, doc0, adjustment, max, nodes, amount, adjStr, j, k, mutated,
                   html_before, written>>

\* regex.exec(html) of /\$/g: offset of the next marker from lastIndex, -1 for null
exec_marker(str, from) == indexOf(str, "$", from)

\* adjust_el, lines 176-186: find the next marker, capture, adjust, format
NextMarker ==
    /\ pc = "markers"
    /\ i < max_total
    /\ LET index == exec_marker(html, lastIndex)
       IN  IF index < 0
           THEN /\ pc' = "threw"
                /\ UNCHANGED <<lastIndex, amount, adjStr, j, k, order, html_before,
                               written>>
           ELSE /\ lastIndex' = index + 1
                /\ amount' = capture_amount(html, index)
                /\ adjStr' = adjusted_string(adjustment, amount'.float)
                /\ j' = Len(amount'.map) - 1
                /\ k' = Len(adjStr') - 1
                /\ order' = Append(order, Len(match_marker(substring(html, 0, index + 1))))
                /\ html_before' = html
                /\ written' = [p \in 1..Len(html) |-> FALSE]
                /\ pc' = "splice"
    /\ UNCHANGED <<doc, doc0, adjustment, max, nodes, adjust_i, el, html, max_total, i,
                   mutated>>

\* adjust_el, lines 187-191: one character of the digit run replaced or deleted
SpliceChar ==
    /\ pc = "splice"
    /\ j >= 0
    /\ LET new_str == IF k >= 0 THEN <<charAt(adjStr, k)>> ELSE <<>>
       IN  /\ html' = replace_text(html, amount.map[j + 1], 1, new_str)
           /\ written' = replace_text(written, amount.map[j + 1], 1,
                                      [p \in 1..Len(new_str) |-> TRUE])
    /\ IF j = 0 /\ k > 0
       THEN /\ pc' = "prefix"
            /\ UNCHANGED <<j, k>>
       ELSE /\ j' = j - 1
            /\ k' = k - 1
            /\ pc' = "splice"
    /\ UNCHANGED <<doc, doc0, adjustment, max, nodes, adjust_i, el, max_total, i,
                   lastIndex, amount, adjStr, mutated, order, html_before>>

\* adjust_el, lines 192-194: the leftover prefix of adjStr goes in at aMap[0]
SplicePrefix ==
    /\ pc = "prefix"
    /\ LET new_str == substring(adjStr, 0, k + 1)
       IN  /\ html' = replace_text(html, amount.map[j + 1], 1, new_str)
           /\ written' = replace_text(written, amount.map[j + 1], 1,
                                      [p \in 1..Len(new_str) |-> TRUE])
    /\ j' = j - 1
    /\ k' = k - 1
    /\ pc' = "splice"
    /\ UNCHANGED <<doc, doc0, adjustment, max, nodes, adjust_i, el, max_total, i,
                   lastIndex, amount, adjStr, mutated, order, html_before>>

\* adjust_el, line 186 and 176: the splice loop ends, on to the next marker
SpliceEnd ==
    /\ pc = "splice"
    /\ j < 0
    /\ i' = i + 1
    /\ pc' = "markers"
    /\ UNCHANGED <<doc, doc0, adjustment, max, nodes, adjust_i, el, html, max_total,
                   lastIndex, amount, adjStr, j, k, mutated, order, html_before, written>>

\* adjust_el, lines 197-198, and adjust, line 210: write the markup back, next node
AssignInnerHTML ==
    /\ pc = "markers"
    /\ i >= max_total
    /\ doc' = setInnerHTML(doc, el, html)
    /\ mutated' = Append(mutated, el)
    /\ adjust_i' = adjust_i - 1
    /\ pc' = "loop"
    /\ UNCHANGED <<doc0, adjustment, max, nodes, el, html, max_total, i, lastIndex,
                   amount, adjStr, j, k, order, html_before, written>>

\* adjust, line 210 and 213: the loop over the candidates ends
Return ==
    /\ pc = "loop"
    /\ adjust_i < 0
    /\ pc' = "done"
    /\ UNCHANGED <<doc, doc0, adjustment, max, nodes, adjust_i, el, html, max_total, i,
                   lastIndex, amount, adjStr, j, k, mutated, order, html_before, written>>

Next ==
    \/ Locate
    \/ AdjustEl
    \/ NextMarker
    \/ SpliceChar
    \/ SplicePrefix
    \/ SpliceEnd
    \/ AssignInnerHTML
    \/ Return

Spec == Init /\ [][Next]_vars

(***************************************************************************)
(* Properties of adjust on a document                                      *)
(***************************************************************************)
Range(f) == {f[x] : x \in DOMAIN f}

\* the characters of str at the offsets in S, in order
RECURSIVE KeepFrom(_, _, _)
KeepFrom(str, S, p) ==
    IF p >= Len(str) THEN <<>>
    ELSE (IF p \in S THEN <<str[p + 1]>> ELSE <<>>) \o KeepFrom(str, S, p + 1)

Offsets(str) == 0..(Len(str) - 1)

WrittenOffsets == {p \in Offsets(html) : written[p + 1]}

\* offsets of the captured run that the splice loop has not reached yet
PendingOffsets == IF pc = "splice" THEN {amount.map[q] : q \in 1..(j + 1)} ELSE {}

InSplice == pc \in {"splice", "prefix"}

\* C2: after every single edit of the splice loop, the markup outside the
\* mapped offsets is what it was: dropping the characters written so far and
\* the mapped characters still to be replaced leaves exactly the original
\* markup without its mapped characters; the characters still to be replaced
\* sit untouched at their mapped offsets; and when the loop ends the written
\* characters are the new string.
C2_SpliceChangesOnlyMapped ==
    InSplice =>
        /\ Len(written) = Len(html)
        /\ KeepFrom(html, Offsets(html) \ (WrittenOffsets \cup PendingOffsets), 0)
               = KeepFrom(html_before, Offsets(html_before) \ Range(amount.map), 0)
        /\ \A p \in PendingOffsets :
               ~written[p + 1] /\ charAt(html, p) = charAt(html_before, p)
        /\ (pc = "splice" /\ j < 0 /\ amount.map # <<>>)
               => KeepFrom(html, WrittenOffsets, 0) = adjStr

\* a captured run that markup tags interrupt
Interrupted(map) == \E q \in 1..(Len(map) - 1) : map[q + 1] > map[q] + 1

C2_Witness ==
    /\ pc = "splice"
    /\ j < 0
    /\ Interrupted(amount.map)
    /\ Len(adjStr) > Len(amount.map)
    /\ html # html_before

\* C5: the markers of a node are processed right to left, the one with the
\* largest offset first and the one with the smallest offset last.
\* (Stated for nodes all of whose markers start a well-formed amount.)
C5_RightToLeft ==
    (el # NULL /\ Len(match_price(textContent(doc, el), 0)) = max_total)
        => \A q \in 1..Len(order) : order[q] = max_total - q + 1

\* C6: nothing is mutated before the scan is done; afterwards the candidate
\* list is the scan result of the original document, in document order; the
\* elements are written in reverse order of that list, each at most once,
\* and all of them by the time adjust returns.
C6_FrozenListReverseOrder ==
    /\ pc = "adjust" => (mutated = <<>> /\ doc = doc0)
    /\ pc # "adjust" => nodes = slice0(get_price_elements(doc0), max)
    /\ \A q \in 1..(Len(nodes) - 1) : nodes[q] < nodes[q + 1]
    /\ Len(mutated) <= Len(nodes)
    /\ \A q \in 1..Len(mutated) : mutated[q] = nodes[Len(nodes) - q + 1]
    /\ \A q, r \in 1..Len(mutated) : mutated[q] = mutated[r] => q = r
    /\ pc = "done" => Len(mutated) = Len(nodes)
    /\ doc # doc0 => mutated # <<>>

C6_Witness ==
    /\ pc = "done"
    /\ Len(mutated) = 3
    /\ \A e \in Range(mutated) : innerHTML(doc, e) # innerHTML(doc0, e)

\* C7: with a limit n, adjust writes at most n elements, exactly the first n
\* candidates of the Locator's list, and the markup of every other candidate
\* is what it was; without a limit every candidate is written.
C7_LimitFirstN ==
    pc = "done" =>
        LET all == get_price_elements(doc0)
            n == IF max.given THEN Min(max.n, Len(all)) ELSE Len(all)
        IN  /\ max.given => Len(mutated) <= max.n
            /\ Len(mutated) = n
            /\ Range(mutated) = {all[q] : q \in 1..n}
            /\ \A q \in (n + 1)..Len(all) :
                   innerHTML(doc, all[q]) = innerHTML(doc0, all[q])

C7_Witness ==
    /\ pc = "done"
    /\ max.given
    /\ max.n = 2
    /\ Len(get_price_elements(doc0)) = 3
    /\ Len(mutated) = 2
    /\ doc # doc0

\* the tag characters of a markup string, in order
RECURSIVE TagsOf(_, _, _)
TagsOf(str, p, inTag) ==
    IF p >= Len(str) THEN <<>>
    ELSE IF inTag \/ str[p + 1] = "<"
         THEN <<str[p + 1]>> \o TagsOf(str, p + 1, str[p + 1] # ">")
    ELSE TagsOf(str, p + 1, FALSE)

\* digits, optionally followed by '.' and exactly two digits
IsPlainAmount(run) ==
    LET ie == DigitsEnd(run, 0)
    IN  /\ ie >= 1
        /\ \/ ie = Len(run)
           \/ /\ charAt(run, ie) = "."
              /\ Len(run) = ie + 3
              /\ DigitsEnd(run, ie + 1) = Len(run)

LimitAllows(n) == ~max.given \/ max.n >= n

\* C1 as claimed: a container whose visible text is one amount, the marker
\* and digits spread over its text and inline children, shows after adjust by
\* d exactly the marker followed by the formatted (value of the whole run + d),
\* and the tags of the document are all there, in order.
C1_SplitRunIsOneAmount ==
    LET text0 == textContent(doc0, 1)
        run == SubSeq(text0, 2, Len(text0))
        value == parseFloat(run)
    IN  (/\ pc = "done"
         /\ doc0 = Wrap(innerHTML(doc0, 1))
         /\ innerHTML(doc0, 1) # text0
         /\ charAt(text0, 0) = "$"
         /\ IsPlainAmount(run)
         /\ ~adjustment.isPercentAdjustment
         /\ ~AddD(ToDouble(value), ToDouble(adjustment.value)).neg
         /\ LimitAllows(1))
        => /\ textContent(doc, 1) = <<"$">> \o adjusted_string(adjustment, value)
           /\ TagsOf(doc, 0, FALSE) = TagsOf(doc0, 0, FALSE)

\* C8 as claimed: every extraction adjust_el performs captures a non-empty
\* run and parses to a number.
C8_NeverNaN ==
    InSplice => (amount.text # <<>> /\ ~amount.float.nan)

(***************************************************************************)
(* adjust on one element that holds one run after the marker               *)
(***************************************************************************)
MaxRun == 4

RECURSIVE SeqsOver(_, _)
SeqsOver(S, n) ==
    IF n = 0 THEN {<<>>}
    ELSE LET shorter == SeqsOver(S, n - 1)
         IN  shorter \cup {Append(r, c) : r \in shorter, c \in S}

SampleRuns ==
    { <<"1", "0", ".", "0", "0">>,
      <<"9", ".", "9", "9">>,
      <<"0", ".", "9", "9">>,
      <<"1", "0", "0", ".", "0", "0">>,
      <<"9", "9", "9", ".", "9", "9">>,
      <<"1", ",", "2", "3", "4", ".", "5", "6">>,
      <<"9", "9", "9", ",", "9", "9", "9", ".", "9", "9">>,
      <<"1", ",", "2", "3", "4", ",", "5", "6", "7", ".", "8", "9">> }

Runs == (SeqsOver({"1", ",", "."}, MaxRun) \ {<<>>}) \cup SampleRuns

Before == {<<>>, <<"T", " ">>}

After == {<<>>, <<" ", "x">>}

RunDocs == {Wrap(c[1] \o <<"$">> \o c[2] \o c[3]) : c \in Before \X Runs \X After}

RunAdjustments ==
    {[isPercentAdjustment |-> FALSE, value |-> Num(c, 2)] : c \in {-9000, -246, 0, 2}}

InitRun == InitWith(RunDocs, RunAdjustments, {Omitted})

SpecRun == InitRun /\ [][Next]_vars

StripSeparators(chars) == SelectSeq(chars, LAMBDA c : c # ",")

\* C9 as claimed: the value of a captured run is the number read from the
\* run with every grouping separator removed.
C9_AllSeparatorsRemoved ==
    InSplice => amount.float = parseFloat(StripSeparators(amount.text))

\* hundredths of the amount written by the digits of run
CentsOf(run) == ToInt(SelectSeq(run, LAMBDA c : c \in Digits))

RECURSIVE Grouped(_)
Grouped(n) ==
    IF n < 1000 THEN IntStr(n)
    ELSE Grouped(n \div 1000)
             \o <<",", DigitChars[((n \div 100) % 10) + 1],
                  DigitChars[((n \div 10) % 10) + 1], DigitChars[(n % 10) + 1]>>

\* canonical form of cents hundredths: grouped integer part, '.', two decimals
Canonical(cents) ==
    Grouped(cents \div 100)
        \o <<".", DigitChars[((cents \div 10) % 10) + 1], DigitChars[(cents % 10) + 1]>>

IsCanonical(run) ==
    /\ Len(run) >= 4
    /\ run[Len(run) - 2] = "."
    /\ run = Canonical(CentsOf(run))

\* C3 as claimed: an element holding one canonical amount shows, after an
\* additive adjust with a non-negative result, the canonical form of
\* value + d after the marker, everything around it as it was.
C3_CanonicalResult ==
    pc = "done" =>
        \A c \in Before \X Runs \X After :
            (/\ doc0 = Wrap(c[1] \o <<"$">> \o c[2] \o c[3])
             /\ IsCanonical(c[2])
             /\ CentsOf(c[2]) + adjustment.value.num * Pow10(2 - adjustment.value.scale) >= 0)
            => doc = Wrap(c[1] \o <<"$">>
                          \o Canonical(CentsOf(c[2])
                                + adjustment.value.num * Pow10(2 - adjustment.value.scale))
                          \o c[3])

(***************************************************************************)
(* The Locator on trees                                                    *)
(***************************************************************************)
LocTexts == { <<>>, <<"x">>, <<"$">>, <<"$", "1">>, <<"$", ".", "9", "9">> }

LocSlots == LocTexts \X LocTexts \X LocTexts \X LocTexts \X LocTexts

LocDocs ==
    {Wrap(t) : t \in LocTexts}
        \cup {Wrap(t[1] \o Wrap(t[2] \o Wrap(t[3]) \o t[4]) \o t[5]) : t \in LocSlots}
        \cup {Wrap(t[1] \o Wrap(t[2]) \o t[3] \o Wrap(t[4]) \o t[5]) : t \in LocSlots}
        \cup {Wrap(t[1] \o Wrap(Wrap(t[2]) \o Wrap(t[3])) \o t[4]) \o Wrap(t[5]) :
                  t \in LocSlots}
        \cup {Wrap(Wrap(t[1]) \o t[2] \o Wrap(Wrap(t[3]) \o t[4]) \o Wrap(t[5])) :
                  t \in LocSlots}

InitLoc ==
    InitWith(LocDocs, {[isPercentAdjustment |-> FALSE, value |-> Num(1, 0)]}, {Omitted})

SpecLoc == InitLoc /\ [][Locate]_vars

Elements == Range(getElementsByTagName(doc))

Count(e) == Len(match_price(textContent(doc, e), 0))

Ancestors(e) == {a \in Elements : is_decendant(doc, e, a)}

Children(e) == {c \in Elements : parentNode(doc, c) = e}

\* C4: the Locator's list holds no two nested elements; of a matching
\* ancestor and descendant with equal counts the ancestor is not returned; of
\* a matching ancestor with a greater count than its descendant the
\* descendant is not returned; and the elements returned are exactly the
\* matching ones whose ancestors all have their count and whose descendants
\* all have a smaller one.
C4_NoNestedCandidates ==
    pc = "loop" =>
        LET cnt == [e \in 1..Cardinality(Elements) |-> Count(e)] \o <<>>
            anc == [e \in 1..Cardinality(Elements) |-> Ancestors(e)] \o <<>>
            ret == Range(nodes)
        IN  /\ \A e \in ret : anc[e] \cap ret = {}
            /\ \A e \in Elements : \A a \in anc[e] :
                   /\ (cnt[e] > 0 /\ cnt[a] = cnt[e]) => a \notin ret
                   /\ (cnt[e] > 0 /\ cnt[a] > cnt[e]) => e \notin ret
            /\ \A e \in Elements :
                   e \in ret <=>
                       /\ cnt[e] > 0
                       /\ \A a \in anc[e] : cnt[a] = cnt[e]
                       /\ \A d \in Elements : e \in anc[d] => cnt[d] < cnt[e]

C4_Witness ==
    /\ pc = "loop"
    /\ \E a, e, c \in Elements :
           /\ parentNode(doc, e) = a
           /\ parentNode(doc, c) = e
           /\ Count(c) > 0
           /\ Count(e) > Count(c)
           /\ Count(a) = Count(e)
           /\ nodes = <<e>>

\* the marker directly followed by '.' and two digits somewhere in text
HoldsFractionOnly(text) ==
    \E p \in Offsets(text) :
        /\ charAt(text, p) = "$"
        /\ charAt(text, p + 1) = "."
        /\ charAt(text, p + 2) \in Digits
        /\ charAt(text, p + 3) \in Digits

\* C10 as claimed: a top-level element without child elements whose text
\* holds the marker directly followed by a two-digit fraction is returned.
C10_FractionOnlyAccepted ==
    pc = "loop" =>
        \A e \in Elements :
            (/\ parentNode(doc, e) = Root
             /\ Children(e) = {}
             /\ HoldsFractionOnly(textContent(doc, e)))
            => e \in Range(nodes)

====
